---- MODULE Spec2Model ----
(***************************************************************************)
(* A model of sudoku.py: the constraint checker (move_valid, is_valid,     *)
(* is_complete) and the recursive backtracking solver (solver), the latter *)
(* unfolded into a state machine with an explicit call stack.  Boards are  *)
(* 9 x 9, rows and columns are indexed from 0 as in the source, and 0 is   *)
(* the empty cell.                                                         *)
(***************************************************************************)
EXTENDS Integers, Sequences, FiniteSets, TLC

VARIABLES board,    \* the list of lists the functions are handed
          stack,    \* one frame [row, col, num] per active invocation of solver that found an empty cell
          pc,       \* "start", "scan", "loop", "done", "checked"
          printed,  \* the boards handed to print_board by solver, in order
          grid0,    \* the board as it was when the program was handed it
          ret       \* the value returned by the last call of is_valid, is_complete or move_valid

vars == <<board, stack, pc, printed, grid0, ret>>

\* len(board) and len(board[0]) of the board of __main__
N == 9

\* last candidate of range(1, 10)
MaxNum == 9

\* the largest number of cells blanked in an input
MaxEmpty == 4

Idx == 0 .. (N - 1)

Cells == Idx \X Idx

ToBoard(rows) == [r \in Idx |-> [c \in Idx |-> rows[r + 1][c + 1]]]

\* the board literal of __main__
grid ==
  ToBoard(<< <<1, 0, 0, 4, 8, 9, 0, 0, 6>>,
             <<7, 3, 0, 0, 0, 0, 0, 4, 0>>,
             <<0, 0, 0, 0, 0, 1, 2, 9, 5>>,
             <<0, 0, 7, 1, 2, 0, 6, 0, 0>>,
             <<5, 0, 0, 7, 0, 3, 0, 0, 8>>,
             <<0, 0, 6, 0, 9, 5, 7, 0, 0>>,
             <<9, 1, 4, 6, 0, 0, 0, 0, 0>>,
             <<0, 2, 0, 0, 0, 0, 0, 3, 7>>,
             <<8, 0, 0, 5, 1, 2, 0, 0, 4>> >>)

\* the board of __main__ once the player has filled it in correctly
Filled ==
  ToBoard(<< <<1, 5, 2, 4, 8, 9, 3, 7, 6>>,
             <<7, 3, 9, 2, 5, 6, 8, 4, 1>>,
             <<4, 6, 8, 3, 7, 1, 2, 9, 5>>,
             <<3, 8, 7, 1, 2, 4, 6, 5, 9>>,
             <<5, 9, 1, 7, 6, 3, 4, 2, 8>>,
             <<2, 4, 6, 8, 9, 5, 7, 1, 3>>,
             <<9, 1, 4, 6, 3, 7, 5, 8, 2>>,
             <<6, 2, 5, 9, 4, 8, 1, 3, 7>>,
             <<8, 7, 3, 5, 1, 2, 9, 6, 4>> >>)

\* make_move: board[row][col] = num
make_move(b, row, col, num) == [b EXCEPT ![row][col] = num]

\* int(sqrt(len(board)))
box_size == CHOOSE b \in 0 .. N : b * b <= N /\ (b + 1) * (b + 1) > N

box_y(row) == (row \div box_size) * box_size

\* box_x without the scaling back to a column: col // box_size
box_x_NoScale(col) == col \div box_size

box_x(col) == (col \div box_size) * box_size

\* move_valid without the scan of the column
move_valid_NoColumn(b, row, col, num) ==
  /\ \A i \in Idx : i # col => b[row][i] # num
  /\ \A i, j \in 0 .. (box_size - 1) :
        ~((box_y(row) + i) = row /\ (box_x(col) + j) = col)
           => b[box_y(row) + i][box_x(col) + j] # num

\* move_valid without the scan of the box
move_valid_NoBox(b, row, col, num) ==
  /\ \A i \in Idx : i # col => b[row][i] # num
  /\ \A i \in Idx : i # row => b[i][col] # num

move_valid(b, row, col, num) ==
  /\ \A i \in Idx : i # col => b[row][i] # num
  /\ \A i \in Idx : i # row => b[i][col] # num
  /\ \A i, j \in 0 .. (box_size - 1) :
        ~((box_y(row) + i) = row /\ (box_x(col) + j) = col)
           => b[box_y(row) + i][box_x(col) + j] # num

\* is_valid that passes over the cells holding 0
is_valid_SkipZero(b) ==
  \A row, col \in Idx :
    LET num == b[row][col] IN
    num # 0 =>
      /\ \A i \in Idx : i # col => b[row][i] # num
      /\ \A i \in Idx : i # row => b[i][col] # num
      /\ \A i, j \in 0 .. (box_size - 1) :
            ~((box_y(row) + i) = row /\ (box_x(col) + j) = col)
               => b[box_y(row) + i][box_x(col) + j] # num

\* is_valid without the scan of the box
is_valid_NoBox(b) ==
  \A row, col \in Idx :
    LET num == b[row][col] IN
    /\ \A i \in Idx : i # col => b[row][i] # num
    /\ \A i \in Idx : i # row => b[i][col] # num

is_valid(b) ==
  \A row, col \in Idx :
    LET num == b[row][col] IN
    /\ \A i \in Idx : i # col => b[row][i] # num
    /\ \A i \in Idx : i # row => b[i][col] # num
    /\ \A i, j \in 0 .. (box_size - 1) :
          ~((box_y(row) + i) = row /\ (box_x(col) + j) = col)
             => b[box_y(row) + i][box_x(col) + j] # num

is_complete(b) == \A row, col \in Idx : b[row][col] # 0

\* the cells on which the scan of solver stops
EmptyCells(b) == {p \in Cells : b[p[1]][p[2]] = 0}

\* the first cell holding 0 met by "for row ...: for col ...:"
FirstEmpty(b) ==
  CHOOSE p \in EmptyCells(b) :
    \A q \in EmptyCells(b) : p[1] < q[1] \/ (p[1] = q[1] /\ p[2] <= q[2])

(***************************************************************************)
(* The boards the functions are run on: the solved board of __main__ with  *)
(* up to MaxEmpty cells of Pool blanked and at most one cell of Overridden *)
(* set to another value (make_move by the player), the solved board with   *)
(* two cells or two rows exchanged, and the board literal of __main__.     *)
(***************************************************************************)
Pool == {<<1, 0>>, <<3, 1>>, <<3, 2>>, <<3, 3>>, <<4, 2>>, <<4, 3>>}

Overridden == {<<3, 0>>, <<4, 1>>}

Blank(b, B) == [r \in Idx |-> [c \in Idx |-> IF <<r, c>> \in B THEN 0 ELSE b[r][c]]]

SwapCells(b, p, q) ==
  make_move(make_move(b, p[1], p[2], b[q[1]][q[2]]), q[1], q[2], b[p[1]][p[2]])

SwapRows(b, r1, r2) == [b EXCEPT ![r1] = b[r2], ![r2] = b[r1]]

Blanked == {Blank(Filled, B) : B \in {C \in SUBSET Pool : Cardinality(C) <= MaxEmpty}}

Moved ==
  {make_move(b, p[1], p[2], v) :
     b \in Blanked, p \in Overridden, v \in 1 .. MaxNum}

Exchanged ==
  {SwapCells(Filled, <<0, 0>>, <<1, 0>>),
   SwapCells(Filled, <<0, 0>>, <<0, 1>>),
   SwapRows(Filled, 0, 3),
   Blank(SwapRows(Filled, 0, 3), {<<8, 8>>})}

Inputs == Blanked \cup Moved \cup Exchanged \cup {grid}

NoRet == [fn |-> "none", row |-> 0, col |-> 0, num |-> 0, val |-> FALSE]

Init ==
  /\ board \in Inputs
  /\ grid0 = board
  /\ stack = <<>>
  /\ pc = "start"
  /\ printed = <<>>
  /\ ret = NoRet

----------------------------------------------------------------------------
(* The constraint checker, called on the board as it stands. *)

IsValidCall ==
  /\ pc = "start"
  /\ ret' = [NoRet EXCEPT !.fn = "is_valid", !.val = is_valid(board)]
  /\ pc' = "checked"
  /\ UNCHANGED <<board, stack, printed, grid0>>

IsCompleteCall ==
  /\ pc = "start"
  /\ ret' = [NoRet EXCEPT !.fn = "is_complete", !.val = is_complete(board)]
  /\ pc' = "checked"
  /\ UNCHANGED <<board, stack, printed, grid0>>

MoveValidCall ==
  /\ pc = "start"
  /\ \E p \in EmptyCells(board), num \in 1 .. MaxNum :
        ret' = [fn |-> "move_valid", row |-> p[1], col |-> p[2], num |-> num,
                val |-> move_valid(board, p[1], p[2], num)]
  /\ pc' = "checked"
  /\ UNCHANGED <<board, stack, printed, grid0>>

----------------------------------------------------------------------------
(* solver, one step at a time. *)

\* AfterReturn in which the caller leaves its loop once the invocation it made has returned
AfterReturn_GiveUp(stk) ==
  IF stk = <<>>
    THEN [stack |-> <<>>, pc |-> "done"]
    ELSE [stack |-> [stk EXCEPT ![Len(stk)].num = MaxNum + 1], pc |-> "loop"]

\* the stack and the control point once the invocation on top of stk's frames has returned:
\* the top-level call is over, or the caller goes on with the next num of its loop
AfterReturn(stk) ==
  IF stk = <<>>
    THEN [stack |-> <<>>, pc |-> "done"]
    ELSE [stack |-> [stk EXCEPT ![Len(stk)].num = @ + 1], pc |-> "loop"]

\* solver(grid) of __main__
SolverCall ==
  /\ pc = "start"
  /\ pc' = "scan"
  /\ UNCHANGED <<board, stack, printed, grid0, ret>>

\* SolverFindEmpty whose loop over num is range(2, 10)
SolverFindEmpty_FromTwo ==
  /\ pc = "scan"
  /\ EmptyCells(board) # {}
  /\ LET p == FirstEmpty(board) IN
       stack' = Append(stack, [row |-> p[1], col |-> p[2], num |-> 2])
  /\ pc' = "loop"
  /\ UNCHANGED <<board, printed, grid0, ret>>

\* the scan meets a cell holding 0: the loop over num starts there
SolverFindEmpty ==
  /\ pc = "scan"
  /\ EmptyCells(board) # {}
  /\ LET p == FirstEmpty(board) IN
       stack' = Append(stack, [row |-> p[1], col |-> p[2], num |-> 1])
  /\ pc' = "loop"
  /\ UNCHANGED <<board, printed, grid0, ret>>

\* SolverPrint that ends the search at the first board printed
SolverPrint_Stop ==
  /\ pc = "scan"
  /\ EmptyCells(board) = {}
  /\ printed' = Append(printed, board)
  /\ stack' = <<>>
  /\ pc' = "done"
  /\ UNCHANGED <<board, grid0, ret>>

\* the scan meets no cell holding 0: print_board(board), and the invocation returns
SolverPrint ==
  /\ pc = "scan"
  /\ EmptyCells(board) = {}
  /\ printed' = Append(printed, board)
  /\ stack' = AfterReturn(stack).stack
  /\ pc' = AfterReturn(stack).pc
  /\ UNCHANGED <<board, grid0, ret>>

\* move_valid holds for num: the cell is filled and solver is called again
SolverPlace ==
  /\ pc = "loop"
  /\ LET f == stack[Len(stack)] IN
       /\ f.num <= MaxNum
       /\ move_valid(board, f.row, f.col, f.num)
       /\ board' = make_move(board, f.row, f.col, f.num)
  /\ pc' = "scan"
  /\ UNCHANGED <<stack, printed, grid0, ret>>

\* SolverSkip that does not move on to the next num
SolverSkip_Stuck ==
  /\ pc = "loop"
  /\ LET f == stack[Len(stack)] IN
       /\ f.num <= MaxNum
       /\ ~move_valid(board, f.row, f.col, f.num)
  /\ UNCHANGED <<board, stack, pc, printed, grid0, ret>>

\* move_valid fails for num: on to the next num
SolverSkip ==
  /\ pc = "loop"
  /\ LET f == stack[Len(stack)] IN
       /\ f.num <= MaxNum
       /\ ~move_valid(board, f.row, f.col, f.num)
       /\ stack' = [stack EXCEPT ![Len(stack)].num = f.num + 1]
  /\ UNCHANGED <<board, pc, printed, grid0, ret>>

\* SolverBacktrack that returns without board[row][col] = 0
SolverBacktrack_NoReset ==
  /\ pc = "loop"
  /\ LET f == stack[Len(stack)]
         rest == SubSeq(stack, 1, Len(stack) - 1) IN
       /\ f.num > MaxNum
       /\ stack' = AfterReturn(rest).stack
       /\ pc' = AfterReturn(rest).pc
  /\ UNCHANGED <<board, printed, grid0, ret>>

\* the loop over num is over: board[row][col] = 0 and return
SolverBacktrack ==
  /\ pc = "loop"
  /\ LET f == stack[Len(stack)]
         rest == SubSeq(stack, 1, Len(stack) - 1) IN
       /\ f.num > MaxNum
       /\ board' = make_move(board, f.row, f.col, 0)
       /\ stack' = AfterReturn(rest).stack
       /\ pc' = AfterReturn(rest).pc
  /\ UNCHANGED <<printed, grid0, ret>>

Next ==
  \/ IsValidCall
  \/ IsCompleteCall
  \/ MoveValidCall
  \/ SolverCall
  \/ SolverFindEmpty
  \/ SolverPrint
  \/ SolverPlace
  \/ SolverSkip
  \/ SolverBacktrack

Spec == Init /\ [][Next]_vars

\* solver is sequential code with no suspension point: once called, the
\* interpreter keeps taking its steps
FairSpec ==
  Spec /\ WF_vars(SolverFindEmpty \/ SolverPrint \/ SolverPlace \/ SolverSkip \/ SolverBacktrack)

----------------------------------------------------------------------------
(* The vocabulary of the properties: rows, columns and boxes as sets of    *)
(* cells, and the solutions of a board, by enumeration.                    *)

At(b, p) == b[p[1]][p[2]]

\* the side of a box of an N x N board, N a perfect square
Root == CHOOSE k \in 1 .. N : k * k = N

RowOf(p) == {<<p[1], c>> : c \in Idx}

ColOf(p) == {<<r, p[2]>> : r \in Idx}

\* rows [floor(r/b)*b, floor(r/b)*b + b) and columns [floor(c/b)*b, floor(c/b)*b + b), b = Root
BoxOf(p) ==
  {<<(p[1] \div Root) * Root + i, (p[2] \div Root) * Root + j>> :
     i \in 0 .. (Root - 1), j \in 0 .. (Root - 1)}

Rows == {RowOf(p) : p \in Cells}

Cols == {ColOf(p) : p \in Cells}

Boxes == {BoxOf(p) : p \in Cells}

Units == Rows \cup Cols \cup Boxes

PeersOf(p) == (RowOf(p) \cup ColOf(p) \cup BoxOf(p)) \ {p}

Holes(b) == {p \in Cells : At(b, p) = 0}

\* no value of 1..N is repeated in a row, a column or a box
ConflictFree(b) ==
  \A p \in Cells : At(b, p) # 0 => \A q \in PeersOf(p) : At(b, q) # At(b, p)

\* no value at all, 0 included, is repeated in a row, a column or a box
NothingRepeated(b) == \A p \in Cells : \A q \in PeersOf(p) : At(b, q) # At(b, p)

CompletelyFilled(b) == \A p \in Cells : At(b, p) \in 1 .. N

IsPermutation(b, u) == {At(b, p) : p \in u} = 1 .. N

Solved(b) == \A u \in Units : IsPermutation(b, u)

Extends(h, g) == \A p \in Cells : At(g, p) # 0 => At(h, p) = At(g, p)

Fillings(g) ==
  {[r \in Idx |-> [c \in Idx |-> IF g[r][c] = 0 THEN f[<<r, c>>] ELSE g[r][c]]] :
     f \in [Holes(g) -> 1 .. N]}

\* the solved boards that extend g; a board with a conflict has none
Solutions(g) == IF ConflictFree(g) THEN {h \in Fillings(g) : Solved(h)} ELSE {}

\* boards whose solutions are enumerated
Small(g) == Cardinality(Holes(g)) <= MaxEmpty

\* a solution is known, or one is found by enumeration
Solvable(g) ==
  \/ Extends(Filled, g) /\ Solved(Filled)
  \/ Small(g) /\ Solutions(g) # {}

RowMajorBefore(p, q) == p[1] < q[1] \/ (p[1] = q[1] /\ p[2] < q[2])

\* a comes before b in the lexicographic order of the values of the cells of H, taken in row-major order
LexLess(a, b, H) ==
  \E p \in H :
    /\ At(a, p) < At(b, p)
    /\ \A q \in H : RowMajorBefore(q, p) => At(a, q) = At(b, q)

Range(s) == {s[i] : i \in DOMAIN s}

Top == stack[Len(stack)]

----------------------------------------------------------------------------
\* C3 as stated: is_valid skips the cells holding 0, so that on every board it
\* returns true iff no value of 1..N is repeated in a row, a column or a box
C3_ZeroExempt ==
  ret.fn = "is_valid" => (ret.val <=> ConflictFree(board))

\* C3 amended: is_valid treats 0 as any other value; on every board it returns
\* true iff no value, 0 included, is repeated in a row, a column or a box
C3_ZeroCompared ==
  ret.fn = "is_valid" => (ret.val <=> NothingRepeated(board))

\* is_valid has rejected a board without conflict in which two empty cells share a row
C3_Witness ==
  /\ ret.fn = "is_valid"
  /\ ConflictFree(board)
  /\ \E p, q \in Holes(board) : p # q /\ q \in RowOf(p)
  /\ ret.val = FALSE

\* is_valid has accepted a board with two empty cells that share no row, column or box
C3_WitnessApart ==
  /\ ret.fn = "is_valid"
  /\ Cardinality(Holes(board)) >= 2
  /\ ret.val = TRUE

\* C4: on a completely filled board with values in 1..N, is_valid returns true
\* iff every row, every column and every box is a permutation of 1..N
C4_CompleteValidIffPermutations ==
  (ret.fn = "is_valid" /\ CompletelyFilled(board)) => (ret.val <=> Solved(board))

\* is_valid has rejected a completely filled board whose rows and columns are all
\* permutations and one of whose boxes is not
C4_Witness ==
  /\ ret.fn = "is_valid"
  /\ CompletelyFilled(board)
  /\ \A u \in Rows \cup Cols : IsPermutation(board, u)
  /\ \E u \in Boxes : ~IsPermutation(board, u)
  /\ ret.val = FALSE

\* C5: for a cell (r,c) holding 0 and a value v of 1..N, move_valid returns true
\* iff v is in no cell of row r, of column c and of the box of (r,c)
C5_LegalIffAbsent ==
  (ret.fn = "move_valid" /\ board[ret.row][ret.col] = 0 /\ ret.num \in 1 .. N)
    => LET p == <<ret.row, ret.col>> IN
       ret.val <=> \A q \in RowOf(p) \cup ColOf(p) \cup BoxOf(p) : At(board, q) # ret.num

\* move_valid has rejected a value that is in the box of the cell only
C5_Witness ==
  /\ ret.fn = "move_valid"
  /\ board[ret.row][ret.col] = 0
  /\ LET p == <<ret.row, ret.col>> IN
       /\ \A q \in RowOf(p) \cup ColOf(p) : At(board, q) # ret.num
       /\ \E q \in BoxOf(p) : At(board, q) = ret.num
  /\ ret.val = FALSE

\* C7: from a board without conflict, solver never leaves a filled cell whose
\* value is repeated in its row, column or box, and every board it prints is
\* completely filled and valid
C7_SearchInvariant ==
  ConflictFree(grid0)
    => /\ ConflictFree(board)
       /\ \A i \in DOMAIN printed : is_complete(printed[i]) /\ is_valid(printed[i])

\* the search goes on, two invocations deep, after a board has been printed
C7_Witness ==
  /\ ConflictFree(grid0)
  /\ pc = "loop"
  /\ Len(stack) >= 2
  /\ Len(printed) >= 1

\* C10: when the top-level call returns the board is the board it was given, no
\* cell filled at the start is ever written, and the only cells that differ from
\* the start are the cells of the invocations still active: an invocation that
\* has returned has left the board as it found it
C10_BoardRestored ==
  /\ pc = "done" => board = grid0
  /\ \A p \in Cells : At(grid0, p) # 0 => At(board, p) = At(grid0, p)
  /\ \A p \in Cells :
       At(board, p) # At(grid0, p)
         => \E i \in DOMAIN stack : stack[i].row = p[1] /\ stack[i].col = p[2]

\* solver has returned on the board of __main__ after it printed a board
C10_Witness ==
  /\ pc = "done"
  /\ grid0 = grid
  /\ Holes(grid0) # {}
  /\ printed # <<>>
  /\ board = grid0

\* C1 as stated: for a board without conflict that has a solution, when the
\* top-level call of solver returns the board it was given is solved: no cell
\* holds 0 and is_valid is true of it
C1_BoardSolvedOnReturn ==
  (pc = "done" /\ ConflictFree(grid0) /\ Solvable(grid0))
    => is_complete(board) /\ is_valid(board)

\* C1 amended: for such a board, when the top-level call of solver returns it
\* has printed a board on which no cell holds 0 and is_valid is true, and the
\* board it was given is as it was given
C1_SolvedBoardPrinted ==
  (pc = "done" /\ ConflictFree(grid0) /\ Solvable(grid0))
    => /\ \E i \in DOMAIN printed :
            /\ is_complete(printed[i]) /\ is_valid(printed[i])
            /\ Extends(printed[i], grid0)
       /\ board = grid0

\* solver has returned from a solvable board with empty cells
C1_Witness ==
  /\ pc = "done"
  /\ ConflictFree(grid0)
  /\ Solvable(grid0)
  /\ ~is_complete(grid0)
  /\ ~is_complete(board)

\* C2: for a board with exactly one solution S, solver prints S and prints it once
C2_UniqueSolutionPrintedOnce ==
  (pc = "done" /\ Small(grid0) /\ Cardinality(Solutions(grid0)) = 1)
    => Len(printed) = 1 /\ Solutions(grid0) = {printed[1]}

\* solver has returned from a board with several empty cells and one solution
C2_Witness ==
  /\ pc = "done"
  /\ Small(grid0)
  /\ Cardinality(Holes(grid0)) >= 3
  /\ Cardinality(Solutions(grid0)) = 1
  /\ Len(printed) = 1

\* C6: the top-level call of solver on a board that has a solution returns
C6_Terminates ==
  (pc = "scan" /\ stack = <<>> /\ Solvable(board)) ~> (pc = "done")

\* solver has returned from a solvable board with several empty cells: the
\* search has placed values, recursed and backtracked
C6_Witness ==
  /\ pc = "done"
  /\ Solvable(grid0)
  /\ Cardinality(Holes(grid0)) >= 2
  /\ Len(printed) >= 1

\* the invocation on top of the stack has tried every value of 1..N on its
\* cell and none was legal
DeadEnd ==
  /\ pc = "loop"
  /\ Top.num > MaxNum
  /\ At(board, <<Top.row, Top.col>>) = 0
  /\ \A v \in 1 .. N : ~move_valid(board, Top.row, Top.col, v)

\* C8: an invocation whose cell has no legal value leaves the cell at 0 and
\* returns to its caller, which goes on with its next larger value, the search
\* not being over; and every solution of the board is printed by the end
C8_BacktrackPastDeadEnd ==
  /\ [][(DeadEnd /\ Len(stack) >= 2)
          => /\ board' = board
             /\ pc' = "loop"
             /\ Len(stack') = Len(stack) - 1
             /\ stack'[Len(stack')] =
                  [stack[Len(stack) - 1] EXCEPT !.num = stack[Len(stack) - 1].num + 1]
             /\ \A i \in 1 .. (Len(stack) - 2) : stack'[i] = stack[i]]_vars
  /\ []((pc = "done" /\ Small(grid0)) => Solutions(grid0) \subseteq Range(printed))

\* an invocation below the top-level one is at a dead end, nothing is printed
\* yet and the board has a solution
C8_Witness ==
  /\ DeadEnd
  /\ Len(stack) >= 2
  /\ printed = <<>>
  /\ ConflictFree(grid0)
  /\ Small(grid0) /\ Solutions(grid0) # {}

\* C9: from a board without conflict, solver prints every solution of the
\* board, each once, in ascending lexicographic order of the values of the
\* empty cells taken in row-major order
C9_AllSolutionsInOrder ==
  (pc = "done" /\ ConflictFree(grid0) /\ Small(grid0))
    => /\ Range(printed) = Solutions(grid0)
       /\ Len(printed) = Cardinality(Solutions(grid0))
       /\ \A i, j \in DOMAIN printed :
            i < j => LexLess(printed[i], printed[j], Holes(grid0))

\* solver has returned from a board without conflict after it printed two boards
C9_Witness ==
  /\ pc = "done"
  /\ ConflictFree(grid0)
  /\ Small(grid0)
  /\ Len(printed) >= 2

\* solver has returned from a board without conflict and without solution
C9_WitnessNone ==
  /\ pc = "done"
  /\ ConflictFree(grid0)
  /\ Small(grid0)
  /\ Solutions(grid0) = {}
  /\ printed = <<>>

====
